---- MODULE Spec2Model ----
(***************************************************************************)
(* Model of schemanyd: the schema graph (utility/graph.py), the adjacency  *)
(* map and breadth-first path search (utility/database.py,                 *)
(* utility/path_assistant.py) and the insert entry points (schemanyd.py,   *)
(* input/insert.py).                                                       *)
(***************************************************************************)
EXTENDS Integers, Sequences, FiniteSets, TLC

VARIABLES
    metadata,       \* the SQLAlchemy MetaData handed to Graph(schema, schema_type)
    schema_type,    \* the schema_type argument of Graph.__init__
    converters,     \* Graph._SCHEMA_CONVERTERS (class attribute)
    registrations,  \* the Graph.register_converter calls made after import, in order
    gpc,            \* position inside Graph.__init__ / convert
    gi,             \* index of the table the current pass is at
    table_lookup,   \* convert's table_lookup: name -> Table object
    columns,        \* Table.columns of every Table object: name -> Column object
    relationships,  \* convert's relationships list (edges)
    graph,          \* the Graph object: constructed flag, nodes, edges
    gerr,           \* exception raised by Graph.__init__, "none" if none
    dbgraph,        \* Database.graph, the dict build_graph returns (PathAssistant.graph)
    start,          \* find_shortest_path argument
    end,            \* find_shortest_path argument
    ppc,            \* position inside find_shortest_path
    queue,          \* find_shortest_path's deque of (node, path)
    visited,        \* find_shortest_path's visited set
    iterations,     \* iterations of find_shortest_path's while loop begun so far
    presult,        \* outcome of find_shortest_path
    column_mapping, \* insert argument: csv column -> target (relation chain, field)
    csv_file,       \* insert argument: the rows of the CSV
    storage,        \* rows held by the database, per table
    ncalls,         \* number of insert calls that have returned
    returned,       \* value returned by the last insert call
    required_tables,\* find_join_path argument
    jpc,            \* position inside find_join_path
    jprinted,       \* what find_join_path has printed
    jreturned,      \* value find_join_path returned
    seperator_rf,   \* Schemanyd.seperator_rf
    seperator_rr,   \* Schemanyd.seperator_rr
    cm,             \* the ColumnMapping object (its column_mapping attribute)
    mpc,            \* position of the ColumnMapping object's life
    mprinted,       \* what ColumnMapping.check has printed
    mreturned,      \* value ColumnMapping.check returned
    style,          \* the style draw_visualizations is drawing
    vpc,            \* position inside the style function
    roots,          \* tables the style function's top-level loop has still to take
    frames,         \* call stack of the style's recursive function
    vqueue,         \* _style_breadth_first's deque of (table, level)
    vvisited,       \* the visited set shared by all calls of a style function
    current_level,  \* _style_breadth_first's current_level
    lines,          \* what the style function has appended to lines / collected
    cycles          \* _style_circular_deps' list of cycles

gvars == <<metadata, schema_type, converters, registrations, gpc, gi, table_lookup, columns,
          relationships, graph, gerr>>

pvars == <<dbgraph, start, end, ppc, queue, visited, iterations, presult>>

ivars == <<column_mapping, csv_file, storage, ncalls, returned>>

jvars == <<required_tables, jpc, jprinted, jreturned>>

mvars == <<seperator_rf, seperator_rr, cm, mpc, mprinted, mreturned>>

vvars == <<style, vpc, roots, frames, vqueue, vvisited, current_level, lines, cycles>>

vars == <<gvars, pvars, ivars, jvars, mvars, vvars>>

\* ---------------------------------------------------------------- bounds
MaxFKs == 2          \* foreign-key constraints per schema

\* ---------------------------------------------------------------- schema universe
Tables == {"country", "destination", "traveler"}

\* iteration order of metadata.tables.items()
TableOrder == <<"country", "destination", "traveler">>

\* iteration order of sqla_table.columns (every table has these three columns)
ColNames == <<"id", "name", "country_id">>

ColSet == {ColNames[i] : i \in 1..Len(ColNames)}

SeqToSet(s) == {s[i] : i \in 1..Len(s)}

\* A ForeignKeyConstraint of the metadata: constrained columns and referenced
\* columns (SQLAlchemy builds one element per referenced column, so both
\* lists have the same length).
SingleFKs ==
    [table : Tables, columns : {<<"country_id">>, <<"id">>},
     referred_table : Tables, refcols : {<<"id">>}]

CompositeFKs ==
    [table : Tables, columns : {<<"name", "country_id">>},
     referred_table : Tables, refcols : {<<"id", "name">>}]

FKCandidates == SingleFKs \cup CompositeFKs

FKSeqs == UNION {[1..n -> FKCandidates] : n \in 0..MaxFKs}

\* columns that may carry NOT NULL, a Python-side default, a UNIQUE constraint
NotNullCandidates == {<<"traveler", "name">>}
DefaultCandidates == {<<"destination", "name">>}
UniqueCandidates == {<<"country", "name">>}

\* an index over two columns and a CHECK constraint over one column
IndexCandidates == {[table |-> "destination", columns |-> <<"name", "country_id">>]}
CheckCandidates == {[table |-> "traveler", columns |-> <<"country_id">>]}

MetaDatas ==
    [fks : FKSeqs,
     notnull : SUBSET NotNullCandidates,
     defaults : SUBSET DefaultCandidates,
     unique : SUBSET UniqueCandidates,
     indexes : {{}},
     checks : {{}}]

\* sqla_column.primary_key: "id" is the primary key of every table
SqlaPrimaryKey(md, t, c) == c = "id"

\* bool(sqla_column.foreign_keys): the column is constrained by some foreign key
SqlaForeignKeys(md, t, c) ==
    \E i \in 1..Len(md.fks) : md.fks[i].table = t /\ c \in SeqToSet(md.fks[i].columns)

\* not sqla_column.nullable
SqlaNotNull(md, t, c) == <<t, c>> \in md.notnull \/ SqlaPrimaryKey(md, t, c)

\* sqla_column.default is not None
SqlaHasDefault(md, t, c) == <<t, c>> \in md.defaults

\* ---------------------------------------------------------------- graph.py objects
\* Column.__init__: convert passes table, name, data_type and the two key
\* flags; nullable and default keep their parameter defaults (True, None).
Column(t, c, pk, fk) ==
    [table |-> t, name |-> c, nullable |-> TRUE, default |-> "None",
     is_primary_key |-> pk, is_foreign_key |-> fk, arguments |-> <<>>]

\* Table.__init__
Table(t) == [name |-> t, relationships |-> <<>>, arguments |-> <<>>]

\* A TableArgument object. id stands for the object's identity (the classes
\* define no __eq__, so Python's "in" compares identities); columns holds
\* .columns of an Index/TableConstraint and <<.column>> of a ColumnConstraint.
Argument(id, kind, t, cols, rt, rcols) ==
    [id |-> id, kind |-> kind, table |-> t, columns |-> cols,
     referenced_table |-> rt, referenced_columns |-> rcols]

\* keyword parameters DefaultConstraint.__init__ accepts
DefaultConstraintParams == {"table", "column", "default_value"}

\* keyword arguments convert passes to DefaultConstraint(...)
ConvertDefaultKwargs == {"table", "column", "default"}

\* a call with an unexpected keyword argument raises TypeError
CallRaisesTypeError(kwargs, params) == ~(kwargs \subseteq params)

\* Table.add_argument / Column.add_argument: append unless already present
AddArgument(args, a) ==
    IF \E i \in 1..Len(args) : args[i] = a THEN args ELSE Append(args, a)


\* add_relationship without the membership test
AddRelationshipAlways(rels, r) == Append(rels, r)

\* Table.add_relationship: append unless already present
AddRelationship(rels, r) ==
    IF \E i \in 1..Len(rels) : rels[i] = r THEN rels ELSE Append(rels, r)

\* Relationship._determine_relationship_type
DetermineRelationshipType(src, tgt) ==
    IF src.is_primary_key /\ tgt.is_foreign_key THEN "OneToMany"
    ELSE IF src.is_foreign_key /\ tgt.is_primary_key THEN "ManyToOne"
    ELSE IF src.is_foreign_key /\ tgt.is_foreign_key THEN "ManyToMany"
    ELSE "Unknown"

\* ---------------------------------------------------------------- convert, 1st pass
\* the Column objects of table t
Pass1Columns(md, t) ==
    [c \in ColSet |-> Column(t, c, SqlaPrimaryKey(md, t, c), SqlaForeignKeys(md, t, c))]

\* the column loop of the 1st pass from column k on: NotNullConstraint
\* arguments are added to the table; a column with a default reaches the
\* DefaultConstraint(...) call. Result: [args, err].
RECURSIVE Pass1Arguments(_, _, _, _)
Pass1Arguments(md, t, k, args) ==
    IF k > Len(ColNames) THEN [args |-> args, err |-> "none"]
    ELSE LET c == ColNames[k]
             a1 == IF SqlaNotNull(md, t, c)
                   THEN AddArgument(args,
                            Argument(<<t, Len(args) + 1>>, "NOT NULL", t, <<c>>, "none", <<>>))
                   ELSE args
         IN  IF SqlaHasDefault(md, t, c)
             THEN IF CallRaisesTypeError(ConvertDefaultKwargs, DefaultConstraintParams)
                  THEN [args |-> a1, err |-> "TypeError"]
                  ELSE Pass1Arguments(md, t, k + 1,
                           AddArgument(a1,
                               Argument(<<t, Len(a1) + 1>>, "DEFAULT", t, <<c>>, "none", <<>>)))
             ELSE Pass1Arguments(md, t, k + 1, a1)

\* ---------------------------------------------------------------- convert, 2nd pass
\* the elements of a set of [table, columns] records that belong to table t,
\* as a sequence of [kind, columns, referred_table, refcols]
RECURSIVE OfTable(_, _, _)
OfTable(S, t, kind) ==
    IF S = {} THEN <<>>
    ELSE LET x == CHOOSE y \in S : TRUE
         IN  (IF x.table = t
              THEN <<[kind |-> kind, columns |-> x.columns,
                      referred_table |-> "none", refcols |-> <<>>]>>
              ELSE <<>>) \o OfTable(S \ {x}, t, kind)

\* sqla_table.indexes of table t
SqlaIndexes(md, t) == OfTable(md.indexes, t, "INDEX")

\* sqla_table.constraints of table t: the primary key, the unique
\* constraints, the foreign keys and the check constraints, as
\* [kind, columns, referred_table, refcols]
RECURSIVE FKsOf(_, _, _)
FKsOf(md, t, k) ==
    IF k > Len(md.fks) THEN <<>>
    ELSE (IF md.fks[k].table = t
          THEN <<[kind |-> "FOREIGN KEY", columns |-> md.fks[k].columns,
                  referred_table |-> md.fks[k].referred_table,
                  refcols |-> md.fks[k].refcols]>>
          ELSE <<>>) \o FKsOf(md, t, k + 1)

SqlaConstraints(md, t) ==
    <<[kind |-> "PRIMARY KEY", columns |-> <<"id">>, referred_table |-> "none", refcols |-> <<>>]>>
    \o (IF <<t, "name">> \in md.unique
        THEN <<[kind |-> "UNIQUE", columns |-> <<"name">>, referred_table |-> "none", refcols |-> <<>>]>>
        ELSE <<>>)
    \o FKsOf(md, t, 1)
    \o OfTable(md.checks, t, "CHECK")

\* the index loop and the constraint loop of the 2nd pass: one argument per
\* element of cons
RECURSIVE Pass2Arguments(_, _, _, _)
Pass2Arguments(t, cons, k, args) ==
    IF k > Len(cons) THEN args
    ELSE Pass2Arguments(t, cons, k + 1,
             AddArgument(args,
                 Argument(<<t, Len(args) + 1>>, cons[k].kind, t, cons[k].columns,
                          cons[k].referred_table, cons[k].refcols)))


\* AttachToColumns that stops after the first column of the argument
AttachToFirstColumn(cols, a, k) ==
    IF Len(a.columns) = 0 THEN cols
    ELSE [cols EXCEPT ![a.columns[1]].arguments = AddArgument(@, a)]

\* col.add_argument(argument) for every column of argument j from column k on
RECURSIVE AttachToColumns(_, _, _)
AttachToColumns(cols, a, k) ==
    IF k > Len(a.columns) THEN cols
    ELSE AttachToColumns(
             [cols EXCEPT ![a.columns[k]].arguments = AddArgument(@, a)], a, k + 1)

\* the loop that adds every argument of the table to the columns it affects
RECURSIVE AttachArguments(_, _, _)
AttachArguments(cols, args, j) ==
    IF j > Len(args) THEN cols
    ELSE AttachArguments(AttachToColumns(cols, args[j], 1), args, j + 1)

\* the composite-key test of the relationship loop
IsCompositeKey(a) == Len(a.columns) # 1 /\ Len(a.referenced_columns) # 1

\* the relationship loop of table t from argument j on; st = [tl, cl, rels, err]
\* with tl the Table objects, cl their columns, rels the edge list
RECURSIVE RelationshipLoop(_, _, _)
RelationshipLoop(args, j, st) ==
    IF j > Len(args) THEN st
    ELSE LET a == args[j] IN
         IF a.kind # "FOREIGN KEY" THEN RelationshipLoop(args, j + 1, st)
         ELSE IF IsCompositeKey(a) THEN [st EXCEPT !.err = "ValueError"]
         ELSE LET s  == <<a.table, a.columns[1]>>
                  g  == <<a.referenced_table, a.referenced_columns[1]>>
                  r  == [id |-> Len(st.rels) + 1, source |-> s, target |-> g,
                         relationship_type |->
                             DetermineRelationshipType(st.cl[s[1]][s[2]], st.cl[g[1]][g[2]])]
                  t1 == [st.tl EXCEPT ![s[1]].relationships = AddRelationship(@, r)]
                  t2 == [t1 EXCEPT ![g[1]].relationships = AddRelationship(@, r)]
              IN  RelationshipLoop(args, j + 1,
                      [st EXCEPT !.tl = t2, !.rels = Append(st.rels, r)])

NoGraph == [constructed |-> FALSE, nodes |-> <<>>, edges |-> <<>>]

\* schema_type values a caller passes
SchemaTypes == {"sqlalchemy", "csv"}

\* register_converters(), run when graph.py is imported
RegisteredConverters == [k \in {"sqlalchemy"} |-> "SQLAlchemySchemaConverter"]

EmptyMap == [k \in {} |-> 0]

\* ---------------------------------------------------------------- database.py, path_assistant.py
\* A sqlalchemy Table object used as a dict key. It hashes by identity and
\* never equals a str, so it is a value distinct from the table's name.
TableObject(t) ==
    CASE t = "country" -> "<Table country>"
      [] t = "destination" -> "<Table destination>"
      [] t = "traveler" -> "<Table traveler>"

TableObjects == {TableObject(t) : t \in Tables}

\* [fk.column.table.name for fk in table.foreign_keys]: one entry per
\* ForeignKey element, i.e. per constrained column of every foreign key of t
RECURSIVE ForeignKeyTargets(_, _, _)
ForeignKeyTargets(md, t, k) ==
    IF k > Len(md.fks) THEN <<>>
    ELSE (IF md.fks[k].table = t
          THEN [i \in 1..Len(md.fks[k].columns) |-> md.fks[k].referred_table]
          ELSE <<>>) \o ForeignKeyTargets(md, t, k + 1)

\* Database.build_graph: graph[table] = [...] with the Table object as key
BuildGraph(md) ==
    [k \in TableObjects |->
        LET t == CHOOSE u \in Tables : TableObject(u) = k
        IN  ForeignKeyTargets(md, t, 1)]

NoResult == [kind |-> "pending", path |-> <<>>]

\* no call of find_shortest_path is in progress
PathIdle ==
    /\ dbgraph = EmptyMap
    /\ start = "none"
    /\ end = "none"
    /\ ppc = "idle"
    /\ queue = <<>>
    /\ visited = {}
    /\ iterations = 0
    /\ presult = NoResult


\* NeighborLoop without the test against the visited set
RECURSIVE NeighborLoopRevisiting(_, _, _, _, _)
NeighborLoopRevisiting(nbrs, k, path, e, st) ==
    IF k > Len(nbrs) THEN st
    ELSE LET n == nbrs[k]
             new_path == Append(path, n)
             v == st.visited \cup {n}
         IN  IF n = e
             THEN [st EXCEPT !.visited = v, !.ret = new_path]
             ELSE NeighborLoopRevisiting(nbrs, k + 1, path, e,
                      [st EXCEPT !.visited = v,
                                 !.queue = Append(@, [node |-> n, path |-> new_path])])

\* the for loop over self.graph[node] from neighbour k on;
\* st = [queue, visited, ret] with ret the returned path or <<>>
RECURSIVE NeighborLoop(_, _, _, _, _)
NeighborLoop(nbrs, k, path, e, st) ==
    IF k > Len(nbrs) THEN st
    ELSE LET n == nbrs[k] IN
         IF n \in st.visited THEN NeighborLoop(nbrs, k + 1, path, e, st)
         ELSE LET new_path == Append(path, n)
                  v == st.visited \cup {n}
              IN  IF n = e
                  THEN [st EXCEPT !.visited = v, !.ret = new_path]
                  ELSE NeighborLoop(nbrs, k + 1, path, e,
                           [st EXCEPT !.visited = v,
                                      !.queue = Append(@, [node |-> n, path |-> new_path])])

\* find_shortest_path up to the while loop
FindShortestPathEnter ==
    /\ ppc = "call"
    /\ IF start = end
       THEN /\ presult' = [kind |-> "path", path |-> <<start>>]
            /\ ppc' = "returned"
            /\ UNCHANGED <<queue, visited>>
       ELSE /\ queue' = <<[node |-> start, path |-> <<start>>]>>
            /\ visited' = {start}
            /\ ppc' = "loop"
            /\ UNCHANGED presult
    /\ UNCHANGED <<vvars, gvars, ivars, jvars, mvars, dbgraph, start, end, iterations>>

\* one iteration of the while loop, or the return after it
FindShortestPathStep ==
    /\ ppc = "loop"
    /\ IF queue = <<>>
       THEN /\ presult' = [kind |-> "None", path |-> <<>>]
            /\ ppc' = "returned"
            /\ UNCHANGED <<queue, visited, iterations>>
       ELSE LET node == Head(queue).node
                path == Head(queue).path
            IN  /\ iterations' = iterations + 1
                /\ IF node \notin DOMAIN dbgraph
                   THEN /\ presult' = [kind |-> "KeyError", path |-> <<>>]
                        /\ ppc' = "raised"
                        /\ queue' = Tail(queue)
                        /\ UNCHANGED visited
                   ELSE LET st == NeighborLoop(dbgraph[node], 1, path, end,
                                      [queue |-> Tail(queue), visited |-> visited, ret |-> <<>>])
                        IN  /\ queue' = st.queue
                            /\ visited' = st.visited
                            /\ IF st.ret # <<>>
                               THEN /\ presult' = [kind |-> "path", path |-> st.ret]
                                    /\ ppc' = "returned"
                               ELSE UNCHANGED <<presult, ppc>>
    /\ UNCHANGED <<vvars, gvars, ivars, jvars, mvars, dbgraph, start, end>>


\* draw_visualizations has not been called
VisualIdle ==
    /\ style = "none"
    /\ vpc = "idle"
    /\ roots = <<>>
    /\ frames = <<>>
    /\ vqueue = <<>>
    /\ vvisited = {}
    /\ current_level = -1
    /\ lines = <<>>
    /\ cycles = <<>>

\* the graph side is not running
GraphIdle ==
    /\ schema_type = "sqlalchemy"
    /\ converters = RegisteredConverters
    /\ registrations = <<>>
    /\ gpc = "idle"
    /\ gi = 1
    /\ table_lookup = EmptyMap
    /\ columns = EmptyMap
    /\ relationships = <<>>
    /\ graph = NoGraph
    /\ gerr = "none"

\* schemas Database.get_schema reflects: column defaults, NOT NULL and UNIQUE
\* play no part in build_graph
PathMetaDatas ==
    [fks : FKSeqs, notnull : {{}}, defaults : {{}}, unique : {{}},
     indexes : {{}}, checks : {{}}]

\* values a caller passes as start and end: table names or Table objects
PathArguments == Tables \cup TableObjects

\* ---------------------------------------------------------------- schemanyd.py, input/insert.py
MaxRows == 2         \* rows per CSV
MaxCalls == 2        \* insert calls per run

\* the schema of the docstring example
ExampleFKs ==
    <<[table |-> "destination", columns |-> <<"country_id">>,
       referred_table |-> "country", refcols |-> <<"id">>],
      [table |-> "traveler", columns |-> <<"country_id">>,
       referred_table |-> "country", refcols |-> <<"id">>]>>

\* traveler needs country's key and country needs traveler's
CyclicFKs ==
    <<[table |-> "traveler", columns |-> <<"country_id">>,
       referred_table |-> "country", refcols |-> <<"id">>],
      [table |-> "country", columns |-> <<"country_id">>,
       referred_table |-> "traveler", refcols |-> <<"id">>]>>

InsertMetaDatas ==
    [fks : {ExampleFKs, CyclicFKs},
     notnull : SUBSET NotNullCandidates,
     defaults : {{}},
     unique : SUBSET UniqueCandidates,
     indexes : {{}},
     checks : {{}}]

Target(chain, field) == [chain |-> chain, field |-> field]

\* the column_mapping of the docstring example
ExampleMapping ==
    [k \in {"name", "citizenship", "destination", "country"} |->
        CASE k = "name" -> Target(<<"traveler">>, "name")
          [] k = "citizenship" -> Target(<<"traveler", "country">>, "name")
          [] k = "destination" -> Target(<<"destination">>, "name")
          [] k = "country" -> Target(<<"destination", "country">>, "name")]

\* touches traveler without giving traveler.name
CitizenshipMapping ==
    [k \in {"citizenship", "destination", "country"} |-> ExampleMapping[k]]

\* touches traveler and country only
TravelerMapping == [k \in {"name", "citizenship"} |-> ExampleMapping[k]]

\* touches country only
CountryMapping == [k \in {"country"} |-> Target(<<"country">>, "name")]

\* populates traveler -> country and country -> traveler
CyclicMapping ==
    [k \in {"name", "citizenship"} |->
        CASE k = "name" -> Target(<<"country", "traveler">>, "name")
          [] k = "citizenship" -> Target(<<"traveler", "country">>, "name")]

ColumnMappings ==
    {ExampleMapping, CitizenshipMapping, TravelerMapping, CountryMapping, CyclicMapping}

CsvRows ==
    [name : {"Tell"}, citizenship : {"Germany", "Switzerland"},
     destination : {"Zuricher See"}, country : {"Germany", "Switzerland"}]

CsvFiles == UNION {[1..n -> CsvRows] : n \in 1..MaxRows}

EmptyStorage == [t \in Tables |-> {}]

\* no call of find_join_path is in progress
JoinIdle ==
    /\ required_tables = <<>>
    /\ jpc = "idle"
    /\ jprinted = <<>>
    /\ jreturned = [kind |-> "pending"]

\* Schemanyd.__init__: the default separators
DefaultSeperatorRF == "."
DefaultSeperatorRR == "/"

\* no ColumnMapping object exists
MappingIdle ==
    /\ seperator_rf = DefaultSeperatorRF
    /\ seperator_rr = DefaultSeperatorRR
    /\ cm = [constructed |-> FALSE]
    /\ mpc = "idle"
    /\ mprinted = <<>>
    /\ mreturned = [kind |-> "pending"]

\* no insert run
InsertIdle ==
    /\ column_mapping = EmptyMap
    /\ csv_file = <<>>
    /\ storage = EmptyStorage
    /\ ncalls = 0
    /\ returned = [kind |-> "pending"]

InitInsert ==
    /\ metadata \in InsertMetaDatas
    /\ GraphIdle
    /\ PathIdle
    /\ column_mapping \in ColumnMappings
    /\ csv_file \in CsvFiles
    /\ storage = EmptyStorage
    /\ ncalls = 0
    /\ returned = [kind |-> "pending"]
    /\ JoinIdle
    /\ MappingIdle
    /\ VisualIdle

\* Schemanyd.insert(csv_file, column_mapping, try_convert): the body is the
\* docstring and "pass"; the numbered steps are comments
SchemanydInsert ==
    /\ ncalls < MaxCalls
    /\ \E try_convert \in BOOLEAN :
          /\ ncalls' = ncalls + 1
          /\ returned' = [kind |-> "None"]
          /\ storage' = storage
    /\ UNCHANGED <<vvars, gvars, pvars, jvars, mvars, column_mapping, csv_file>>

\* input.insert.insert(csv_file, column_mapping): the same stub
InputInsert ==
    /\ ncalls < MaxCalls
    /\ ncalls' = ncalls + 1
    /\ returned' = [kind |-> "None"]
    /\ storage' = storage
    /\ UNCHANGED <<vvars, gvars, pvars, jvars, mvars, column_mapping, csv_file>>

NextInsert == SchemanydInsert \/ InputInsert

SpecInsert == InitInsert /\ [][NextInsert]_vars

\* ---------------------------------------------------------------- find_join_path
MaxRequired == 3     \* names per required_tables list

\* PathAssistant.all_tables = set(self.schema.tables.keys())
AllTables == Tables

\* names a caller may ask for: the tables of the schema and two others
RequiredNames == Tables \cup {"planet", "city"}

RequiredLists == UNION {[1..n -> RequiredNames] : n \in 0..MaxRequired}

\* [table for table in required_tables if table not in self.all_tables]
RECURSIVE MissingTables(_, _)
MissingTables(req, k) ==
    IF k > Len(req) THEN <<>>
    ELSE (IF req[k] \notin AllTables THEN <<req[k]>> ELSE <<>>) \o MissingTables(req, k + 1)

\* PathAssistant.find_join_path(required_tables): print the missing tables
\* and return None; with none missing the body ends and None is returned
FindJoinPath ==
    /\ jpc = "call"
    /\ LET missing_tables == MissingTables(required_tables, 1)
       IN  IF missing_tables # <<>>
           THEN /\ jprinted' = Append(jprinted, missing_tables)
                /\ jreturned' = [kind |-> "None"]
           ELSE /\ jprinted' = jprinted
                /\ jreturned' = [kind |-> "None"]
    /\ jpc' = "returned"
    /\ UNCHANGED <<vvars, gvars, pvars, ivars, mvars, required_tables>>

\* the example schema is loaded and find_join_path(required_tables) is called
InitJoin ==
    /\ metadata = [fks |-> ExampleFKs, notnull |-> {}, defaults |-> {}, unique |-> {},
                   indexes |-> {}, checks |-> {}]
    /\ GraphIdle
    /\ PathIdle
    /\ InsertIdle
    /\ MappingIdle
    /\ VisualIdle
    /\ required_tables \in RequiredLists
    /\ jpc = "call"
    /\ jprinted = <<>>
    /\ jreturned = [kind |-> "pending"]

NextJoin == FindJoinPath

SpecJoin == InitJoin /\ [][NextJoin]_vars

\* ---------------------------------------------------------------- column_mapping.py
MaxChain == 2        \* tables per relation chain of a mapping target

\* separators a caller may configure in Schemanyd.__init__
SeperatorsRF == {DefaultSeperatorRF, ":"}
SeperatorsRR == {DefaultSeperatorRR, ">"}

\* table and field names a mapping may mention: those of the schema and one
\* of each that the schema does not have
MappingTableNames == Tables \cup {"planet"}
MappingFieldNames == ColSet \cup {"capital"}

MappingChains == UNION {[1..n -> MappingTableNames] : n \in 1..MaxChain}

\* single-entry mappings {csv column "field": target}
SingleMappings ==
    {[k \in {"field"} |-> Target(chain, f)] : chain \in MappingChains, f \in MappingFieldNames}

\* seperator_rr.join(chain) from element k on, as a sequence of name and
\* separator tokens
RECURSIVE JoinChain(_, _, _)
JoinChain(chain, k, rr) ==
    IF k > Len(chain) THEN <<>>
    ELSE (IF k = 1 THEN <<chain[k]>> ELSE <<rr, chain[k]>>) \o JoinChain(chain, k + 1, rr)

\* the mapping string of a target: seperator_rr.join(chain) + seperator_rf + field
MappingString(target, rr, rf) == JoinChain(target.chain, 1, rr) \o <<rf, target.field>>

\* ColumnMapping.__init__(schemanyd_obj, column_mapping): keeps the dict of strings
ColumnMappingInit ==
    /\ mpc = "new"
    /\ cm' = [constructed |-> TRUE,
              column_mapping |->
                  [k \in DOMAIN column_mapping |->
                      MappingString(column_mapping[k], seperator_rr, seperator_rf)]]
    /\ mpc' = "constructed"
    /\ UNCHANGED <<vvars, gvars, pvars, ivars, jvars, seperator_rf, seperator_rr, mprinted, mreturned>>

\* ColumnMapping.check(): prints that it is not implemented, then "pass"
ColumnMappingCheck ==
    /\ mpc = "constructed"
    /\ mprinted' = Append(mprinted, "ColumnMapping.check() is not implemented yet, be aware.")
    /\ mreturned' = [kind |-> "None"]
    /\ mpc' = "checked"
    /\ UNCHANGED <<vvars, gvars, pvars, ivars, jvars, seperator_rf, seperator_rr, cm>>

\* a Schemanyd object with its separators exists; a mapping is about to be
\* wrapped in a ColumnMapping, checked and inserted
InitMapping ==
    /\ metadata = [fks |-> ExampleFKs, notnull |-> {}, defaults |-> {}, unique |-> {},
                   indexes |-> {}, checks |-> {}]
    /\ GraphIdle
    /\ PathIdle
    /\ JoinIdle
    /\ column_mapping \in SingleMappings
    /\ csv_file \in [1..1 -> CsvRows]
    /\ storage = EmptyStorage
    /\ ncalls = 0
    /\ returned = [kind |-> "pending"]
    /\ seperator_rf \in SeperatorsRF
    /\ seperator_rr \in SeperatorsRR
    /\ cm = [constructed |-> FALSE]
    /\ mpc = "new"
    /\ mprinted = <<>>
    /\ mreturned = [kind |-> "pending"]
    /\ VisualIdle

NextMapping == ColumnMappingInit \/ ColumnMappingCheck \/ SchemanydInsert \/ InputInsert

SpecMapping == InitMapping /\ [][NextMapping]_vars

\* Database.async_init has run and find_shortest_path(start, end) is called
InitPath ==
    /\ metadata \in PathMetaDatas
    /\ GraphIdle
    /\ dbgraph = BuildGraph(metadata)
    /\ start \in PathArguments
    /\ end \in PathArguments
    /\ ppc = "call"
    /\ queue = <<>>
    /\ visited = {}
    /\ iterations = 0
    /\ presult = NoResult
    /\ InsertIdle
    /\ JoinIdle
    /\ MappingIdle
    /\ VisualIdle

NextPath == FindShortestPathEnter \/ FindShortestPathStep

SpecPath == InitPath /\ [][NextPath]_vars

InitGraph ==
    /\ metadata \in MetaDatas
    /\ schema_type \in SchemaTypes
    /\ converters = RegisteredConverters
    /\ registrations = <<>>
    /\ gpc = "init"
    /\ gi = 1
    /\ table_lookup = EmptyMap
    /\ columns = EmptyMap
    /\ relationships = <<>>
    /\ graph = NoGraph
    /\ gerr = "none"
    /\ PathIdle
    /\ InsertIdle
    /\ JoinIdle
    /\ MappingIdle
    /\ VisualIdle

\* LoadConverter without the registry lookup: every schema_type gets a converter
LoadConverterAnyType ==
    /\ gpc = "init"
    /\ gpc' = "pass1"
    /\ UNCHANGED <<vvars, metadata, schema_type, converters, registrations, gi, table_lookup, columns,
                   relationships, graph, gerr, pvars, ivars, jvars, mvars>>

\* Graph.__init__ up to the first iteration of converter.convert:
\* _load_converter, and convert of the base class SchemaConverter, which
\* raises NotImplementedError
LoadConverter ==
    /\ gpc = "init"
    /\ IF schema_type \notin DOMAIN converters
       THEN /\ gpc' = "raised"
            /\ gerr' = "UnsupportedSchemaType"
       ELSE IF converters[schema_type] = "SchemaConverter"
       THEN /\ gpc' = "raised"
            /\ gerr' = "NotImplementedError"
       ELSE /\ gpc' = "pass1"
            /\ gerr' = gerr
    /\ UNCHANGED <<vvars, metadata, schema_type, converters, registrations, gi, table_lookup, columns,
                   relationships, graph, pvars, ivars, jvars, mvars>>

\* one iteration of the 1st pass of convert
Pass1 ==
    /\ gpc = "pass1"
    /\ LET t == TableOrder[gi]
           r == Pass1Arguments(metadata, t, 1, <<>>)
       IN  IF r.err # "none"
           THEN /\ gpc' = "raised"
                /\ gerr' = r.err
                /\ UNCHANGED <<gi, table_lookup, columns>>
           ELSE /\ table_lookup' = (t :> [Table(t) EXCEPT !.arguments = r.args]) @@ table_lookup
                /\ columns' = (t :> Pass1Columns(metadata, t)) @@ columns
                /\ gi' = IF gi = Len(TableOrder) THEN 1 ELSE gi + 1
                /\ gpc' = IF gi = Len(TableOrder) THEN "pass2" ELSE "pass1"
                /\ gerr' = gerr
    /\ UNCHANGED <<vvars, metadata, schema_type, converters, registrations, relationships, graph, pvars, ivars, jvars, mvars>>

\* one iteration of the 2nd pass of convert; after the last one convert
\* returns and Graph.__init__ stores nodes and edges
Pass2 ==
    /\ gpc = "pass2"
    /\ LET t    == TableOrder[gi]
           args == Pass2Arguments(t, SqlaIndexes(metadata, t) \o SqlaConstraints(metadata, t),
                                  1, table_lookup[t].arguments)
           st0  == [tl   |-> [table_lookup EXCEPT ![t].arguments = args],
                    cl   |-> [columns EXCEPT ![t] = AttachArguments(columns[t], args, 1)],
                    rels |-> relationships,
                    err  |-> "none"]
           st   == RelationshipLoop(args, 1, st0)
       IN  /\ table_lookup' = st.tl
           /\ columns' = st.cl
           /\ relationships' = st.rels
           /\ IF st.err # "none"
              THEN /\ gpc' = "raised"
                   /\ gerr' = "CompositeForeignKey"
                   /\ UNCHANGED <<gi, graph>>
              ELSE IF gi = Len(TableOrder)
              THEN /\ gpc' = "done"
                   /\ graph' = [constructed |-> TRUE, nodes |-> TableOrder, edges |-> st.rels]
                   /\ UNCHANGED <<gi, gerr>>
              ELSE /\ gi' = gi + 1
                   /\ UNCHANGED <<gpc, graph, gerr>>
    /\ UNCHANGED <<vvars, metadata, schema_type, converters, registrations, pvars, ivars, jvars, mvars>>

NextGraph == LoadConverter \/ Pass1 \/ Pass2

SpecGraph == InitGraph /\ [][NextGraph]_vars



\* ---------------------------------------------------------------- find_shortest_path on any adjacency map
MaxNeighbors == 2    \* entries per neighbour list

NeighborLists == UNION {[1..n -> Tables] : n \in 0..MaxNeighbors}

\* adjacency maps keyed by table name, with any neighbour lists: foreign-key
\* cycles, self-references and repeated neighbours included
AdjacencyMaps == [Tables -> NeighborLists]

\* the schema plays no part in find_shortest_path
NoMetaData ==
    [fks |-> <<>>, notnull |-> {}, defaults |-> {}, unique |-> {},
     indexes |-> {}, checks |-> {}]

\* AdjacencyMaps is closed under renaming the tables, so one start table
\* stands for all three, and the end is the start itself, another table or a
\* name that is no table
BfsStarts == {"country"}
BfsEnds == {"country", "destination", "planet"}

\* find_shortest_path(start, end) is called on a PathAssistant whose graph
\* is any adjacency map
InitBfs ==
    /\ metadata = NoMetaData
    /\ GraphIdle
    /\ dbgraph \in AdjacencyMaps
    /\ start \in BfsStarts
    /\ end \in BfsEnds
    /\ ppc = "call"
    /\ queue = <<>>
    /\ visited = {}
    /\ iterations = 0
    /\ presult = NoResult
    /\ InsertIdle
    /\ JoinIdle
    /\ MappingIdle
    /\ VisualIdle

SpecBfs == InitBfs /\ [][NextPath]_vars

\* the call runs to its end: a step that can be taken is taken
SpecBfsFair == SpecBfs /\ WF_vars(NextPath)

\* ---------------------------------------------------------------- schemas with every kind of argument
\* foreign keys of destination, to country or to destination itself
ArgumentFKs ==
    {f \in FKCandidates :
        f.table = "destination" /\ f.referred_table \in {"country", "destination"}}

ArgumentFKSeqs == UNION {[1..n -> ArgumentFKs] : n \in 0..MaxFKs}

\* schemas that may carry an index and a check constraint as well
ArgumentMetaDatas ==
    [fks : ArgumentFKSeqs,
     notnull : SUBSET NotNullCandidates,
     defaults : SUBSET DefaultCandidates,
     unique : SUBSET UniqueCandidates,
     indexes : SUBSET IndexCandidates,
     checks : SUBSET CheckCandidates]

InitArguments ==
    /\ metadata \in ArgumentMetaDatas
    /\ schema_type \in SchemaTypes
    /\ converters = RegisteredConverters
    /\ registrations = <<>>
    /\ gpc = "init"
    /\ gi = 1
    /\ table_lookup = EmptyMap
    /\ columns = EmptyMap
    /\ relationships = <<>>
    /\ graph = NoGraph
    /\ gerr = "none"
    /\ PathIdle
    /\ InsertIdle
    /\ JoinIdle
    /\ MappingIdle
    /\ VisualIdle

SpecArguments == InitArguments /\ [][NextGraph]_vars


\* ---------------------------------------------------------------- the converter registry
MaxRegistrations == 2    \* register_converter calls after import

\* independent callers of Graph.register_converter and Graph(...): tests,
\* builders
Contexts == {"test_a", "test_b"}

\* converter classes a caller can register
ConverterClasses == {"SQLAlchemySchemaConverter", "SchemaConverter"}

\* the registry a Graph constructed by context ctx looks its converter up in:
\* self._SCHEMA_CONVERTERS is the class attribute, whoever constructs the Graph
ConvertersSeenBy(ctx) == converters

\* Graph.register_converter(schema_type, converter_cls), called by some
\* context while no Graph is being constructed
RegisterConverter ==
    /\ gpc \in {"init", "done", "raised"}
    /\ Len(registrations) < MaxRegistrations
    /\ \E ctx \in Contexts, st \in SchemaTypes, cls \in ConverterClasses :
          /\ converters' = (st :> cls) @@ converters
          /\ registrations' =
                Append(registrations, [context |-> ctx, schema_type |-> st, converter_cls |-> cls])
    /\ UNCHANGED <<vvars, metadata, schema_type, gpc, gi, table_lookup, columns,
                   relationships, graph, gerr, pvars, ivars, jvars, mvars>>

\* schemas of the registry runs: no foreign key, or the example's two
RegistryMetaDatas ==
    [fks : {<<>>, ExampleFKs}, notnull : {{}}, defaults : {{}}, unique : {{}},
     indexes : {{}}, checks : {{}}]

InitRegistry ==
    /\ metadata \in RegistryMetaDatas
    /\ schema_type \in SchemaTypes
    /\ converters = RegisteredConverters
    /\ registrations = <<>>
    /\ gpc = "init"
    /\ gi = 1
    /\ table_lookup = EmptyMap
    /\ columns = EmptyMap
    /\ relationships = <<>>
    /\ graph = NoGraph
    /\ gerr = "none"
    /\ PathIdle
    /\ InsertIdle
    /\ JoinIdle
    /\ MappingIdle
    /\ VisualIdle

NextRegistry == RegisterConverter \/ LoadConverter \/ Pass1 \/ Pass2

SpecRegistry == InitRegistry /\ [][NextRegistry]_vars


\* ---------------------------------------------------------------- graph_visualizations.py
\* styles whose traversal is a recursive function
DfsStyles == {"hierarchy", "dependency_chain", "depth_first", "tree", "circular_deps"}

\* the styles drawn here
Styles == DfsStyles \cup {"breadth_first"}

\* styles whose recursive function shares one visited set among all its
\* calls; the other two hand every call a copy of the caller's set
SharedVisitedStyles == {"hierarchy", "depth_first", "tree"}

\* [rel.target.table for rel in table.relationships if rel.source.table == table]
\* from position k on (tables of a built graph have distinct names, so the
\* comparison of names in _style_hierarchy selects the same relationships)
RECURSIVE ChildrenFrom(_, _, _)
ChildrenFrom(rels, t, k) ==
    IF k > Len(rels) THEN <<>>
    ELSE (IF rels[k].source[1] = t THEN <<rels[k].target[1]>> ELSE <<>>)
         \o ChildrenFrom(rels, t, k + 1)

Children(t) == ChildrenFrom(table_lookup[t].relationships, t, 1)

\* names of the tables that are source, target of some edge
ReferencingTables == {graph.edges[i].source[1] : i \in 1..Len(graph.edges)}
ReferencedTables == {graph.edges[i].target[1] : i \in 1..Len(graph.edges)}

\* sorted(roots) of _style_hierarchy (graph.nodes is in alphabetical order here)
HierarchyRoots ==
    SelectSeq(graph.nodes, LAMBDA t : t \notin ReferencingTables \/ t \in ReferencedTables)

\* roots of _style_breadth_first
BreadthFirstRoots ==
    LET r == SelectSeq(graph.nodes, LAMBDA t : t \notin ReferencingTables)
    IN  IF r # <<>> THEN r
        ELSE IF graph.nodes # <<>> THEN <<graph.nodes[1]>> ELSE <<>>

\* the frame of a call of the recursive function on table t that has passed
\* its entry tests: the children still to visit, the call's visited set and
\* path parameter, the deps collected so far
Frame(t, V, path) ==
    [table |-> t, children |-> Children(t), visited |-> V, path |-> path, deps |-> <<>>]

\* a visited test that never finds the table
NeverVisited(t, V) == FALSE

\* "table.name in visited" at the entry of a recursive function
AlreadyVisited(t, V) == t \in V

\* a path test that never finds the table
NeverOnPath(t, path) == FALSE

\* "table.name in path" at the entry of _style_circular_deps' dfs
OnPath(t, path) == t \in SeqToSet(path)

\* path[cycle_start:] + [table.name]
RECURSIVE CycleFrom(_, _)
CycleFrom(path, t) ==
    IF Head(path) = t THEN Append(path, t) ELSE CycleFrom(Tail(path), t)

\* get_dependencies' caller side: the deps a call on target contributes to
\* its caller, given the list sub_deps the call returned
ExtendDeps(target, sub_deps) ==
    IF sub_deps = <<>> THEN <<<<target>>>>
    ELSE [i \in 1..Len(sub_deps) |->
             IF sub_deps[i] # <<target>> THEN <<target>> \o sub_deps[i] ELSE <<target>>]

\* a call of get_dependencies on target returns sub_deps: to the calling
\* frame, or to the loop over graph.nodes, which appends the set of deps
Deliver(st, target, sub_deps) ==
    IF st.frames = <<>>
    THEN [st EXCEPT !.lines = Append(@, <<"deps", target, SeqToSet(sub_deps)>>)]
    ELSE [st EXCEPT !.frames[Len(st.frames)].deps = @ \o ExtendDeps(target, sub_deps)]

\* a call of style s's recursive function on table t, up to its first
\* recursive call or its return; V and path are the visited set and the path
\* handed to the call, st = [frames, vvisited, lines, cycles]
Call(s, t, V, path, st) ==
    IF s \in SharedVisitedStyles
    THEN IF AlreadyVisited(t, st.vvisited)
         THEN [st EXCEPT !.lines = Append(@, <<"again", t>>)]
         ELSE [st EXCEPT !.vvisited = @ \cup {t},
                         !.lines = Append(@, <<"table", t>>),
                         !.frames = Append(@, Frame(t, {}, <<>>))]
    ELSE IF s = "dependency_chain"
    THEN IF AlreadyVisited(t, V)
         THEN Deliver(st, t, <<<<"again", t>>>>)
         ELSE [st EXCEPT !.frames = Append(@, Frame(t, V \cup {t}, <<>>))]
    ELSE IF OnPath(t, path)
         THEN [st EXCEPT !.cycles = Append(@, CycleFrom(path, t))]
         ELSE IF AlreadyVisited(t, V)
         THEN st
         ELSE [st EXCEPT !.frames = Append(@, Frame(t, V \cup {t}, path))]

\* lines.append("") after a top-level call of print_tree / dfs has returned
AfterTopLevelCall(s, st) ==
    IF st.frames = <<>> /\ s \in {"hierarchy", "depth_first"}
    THEN [st EXCEPT !.lines = Append(@, <<"">>)]
    ELSE st

\* draw_visualizations(graph, [s]) on a built graph: the style function up
\* to its top-level loop
DrawVisualizations ==
    /\ gpc = "done"
    /\ vpc = "idle"
    /\ \E s \in Styles :
          /\ style' = s
          /\ roots' = IF s = "hierarchy" THEN HierarchyRoots
                      ELSE IF s = "breadth_first" THEN <<>>
                      ELSE graph.nodes
          /\ vqueue' = IF s = "breadth_first"
                       THEN [i \in 1..Len(BreadthFirstRoots) |->
                                [table |-> BreadthFirstRoots[i], level |-> 0]]
                       ELSE <<>>
    /\ vpc' = "run"
    /\ frames' = <<>>
    /\ vvisited' = {}
    /\ current_level' = -1
    /\ lines' = <<>>
    /\ cycles' = <<>>
    /\ UNCHANGED <<gvars, pvars, ivars, jvars, mvars>>

\* one iteration of the top-level loop of a recursive style: the call on the
\* next table; after the last table the function returns
TopLevelLoop ==
    /\ vpc = "run"
    /\ style \in DfsStyles
    /\ frames = <<>>
    /\ IF roots = <<>>
       THEN /\ vpc' = "done"
            /\ lines' = IF style # "circular_deps" THEN lines
                        ELSE IF cycles # <<>>
                        THEN Append(lines, <<"Found circular dependencies", Len(cycles)>>) \o cycles
                        ELSE Append(lines, <<"No circular dependencies detected">>)
            /\ UNCHANGED <<roots, frames, vvisited, cycles>>
       ELSE LET t == Head(roots)
                st0 == [frames |-> frames, vvisited |-> vvisited, lines |-> lines,
                        cycles |-> cycles]
                st == IF style \in {"depth_first", "tree"} /\ t \in vvisited
                      THEN st0
                      ELSE AfterTopLevelCall(style, Call(style, t, {}, <<>>, st0))
            IN  /\ roots' = Tail(roots)
                /\ frames' = st.frames
                /\ vvisited' = st.vvisited
                /\ lines' = st.lines
                /\ cycles' = st.cycles
                /\ UNCHANGED vpc
    /\ UNCHANGED <<gvars, pvars, ivars, jvars, mvars, style, vqueue, current_level>>

\* the innermost call takes its next child and calls the function on it
Descend ==
    /\ vpc = "run"
    /\ frames # <<>>
    /\ frames[Len(frames)].children # <<>>
    /\ LET top == frames[Len(frames)]
           st0 == [frames |-> [frames EXCEPT ![Len(frames)].children = Tail(@)],
                   vvisited |-> vvisited, lines |-> lines, cycles |-> cycles]
           st == Call(style, Head(top.children), top.visited, Append(top.path, top.table), st0)
       IN  /\ frames' = st.frames
           /\ vvisited' = st.vvisited
           /\ lines' = st.lines
           /\ cycles' = st.cycles
    /\ UNCHANGED <<gvars, pvars, ivars, jvars, mvars, style, vpc, roots, vqueue, current_level>>

\* the innermost call has no child left and returns
Return ==
    /\ vpc = "run"
    /\ frames # <<>>
    /\ frames[Len(frames)].children = <<>>
    /\ LET top == frames[Len(frames)]
           st0 == [frames |-> SubSeq(frames, 1, Len(frames) - 1),
                   vvisited |-> vvisited, lines |-> lines, cycles |-> cycles]
           st1 == IF style = "dependency_chain"
                  THEN Deliver(st0, top.table,
                               IF top.deps # <<>> THEN top.deps ELSE <<<<top.table>>>>)
                  ELSE st0
           st == AfterTopLevelCall(style, st1)
       IN  /\ frames' = st.frames
           /\ lines' = st.lines
    /\ UNCHANGED <<gvars, pvars, ivars, jvars, mvars, style, vpc, roots, vqueue, vvisited,
                   current_level, cycles>>

\* one iteration of _style_breadth_first's while loop, or the return after it
BreadthFirstStep ==
    /\ vpc = "run"
    /\ style = "breadth_first"
    /\ IF vqueue = <<>>
       THEN /\ vpc' = "done"
            /\ UNCHANGED <<vqueue, vvisited, current_level, lines>>
       ELSE LET table == Head(vqueue).table
                level == Head(vqueue).level
                kids == Children(table)
            IN  IF table \in vvisited
                THEN /\ vqueue' = Tail(vqueue)
                     /\ UNCHANGED <<vpc, vvisited, current_level, lines>>
                ELSE /\ vvisited' = vvisited \cup {table}
                     /\ current_level' = level
                     /\ lines' = (IF level # current_level
                                  THEN Append(lines, <<"level", level>>)
                                  ELSE lines) \o <<<<"table", table, level>>>>
                     /\ vqueue' = Tail(vqueue) \o
                                  [i \in 1..Len(kids) |-> [table |-> kids[i], level |-> level + 1]]
                     /\ UNCHANGED vpc
    /\ UNCHANGED <<gvars, pvars, ivars, jvars, mvars, style, roots, frames, cycles>>

\* schemas whose graph builds: single-column foreign keys between any two
\* tables (self-references included), no column defaults
VisualFKs == {f \in SingleFKs : f.columns = <<"country_id">>}

VisualFKSeqs == UNION {[1..n -> VisualFKs] : n \in 0..MaxFKs}

VisualMetaDatas ==
    [fks : VisualFKSeqs, notnull : {{}}, defaults : {{}}, unique : {{}},
     indexes : {{}}, checks : {{}}]

\* Graph(metadata) is about to be built and then drawn
InitVisual ==
    /\ metadata \in VisualMetaDatas
    /\ schema_type = "sqlalchemy"
    /\ converters = RegisteredConverters
    /\ registrations = <<>>
    /\ gpc = "init"
    /\ gi = 1
    /\ table_lookup = EmptyMap
    /\ columns = EmptyMap
    /\ relationships = <<>>
    /\ graph = NoGraph
    /\ gerr = "none"
    /\ PathIdle
    /\ InsertIdle
    /\ JoinIdle
    /\ MappingIdle
    /\ VisualIdle

NextVisual ==
    \/ LoadConverter \/ Pass1 \/ Pass2
    \/ DrawVisualizations \/ TopLevelLoop \/ Descend \/ Return \/ BreadthFirstStep

SpecVisual == InitVisual /\ [][NextVisual]_vars

\* a style function that has been called runs to its end: a step of it that
\* can be taken is taken
StyleStep == TopLevelLoop \/ Descend \/ Return \/ BreadthFirstStep

SpecVisualFair == SpecVisual /\ WF_vars(StyleStep)

\* ================================================================ properties
\* ---------------------------------------------------------------- helpers
AllSingleColumn(md) ==
    \A i \in 1..Len(md.fks) : Len(md.fks[i].columns) = 1 /\ Len(md.fks[i].refcols) = 1

\* Graph(schema, schema_type) has returned or raised
GraphFinished == gpc \in {"done", "raised"}

\* number of foreign-key constraints of the metadata equal to f
FKCount(md, f) == Cardinality({i \in 1..Len(md.fks) : md.fks[i] = f})

\* number of edges of the graph that run between the columns of f
EdgeCount(f) ==
    Cardinality({i \in 1..Len(graph.edges) :
        /\ graph.edges[i].source = <<f.table, f.columns[1]>>
        /\ graph.edges[i].target = <<f.referred_table, f.refcols[1]>>})

\* the Column object an endpoint refers to carries the schema column's flags
FlagsMatch(k) ==
    /\ columns[k[1]][k[2]].is_primary_key = SqlaPrimaryKey(metadata, k[1], k[2])
    /\ columns[k[1]][k[2]].is_foreign_key = SqlaForeignKeys(metadata, k[1], k[2])

\* tables a mapping touches, and the (child, parent) relations its chains name
MappedTables(m) == UNION {SeqToSet(m[k].chain) : k \in DOMAIN m}

MappedRelations(m) ==
    UNION {{<<m[k].chain[i], m[k].chain[i + 1]>> : i \in 1..(Len(m[k].chain) - 1)} :
           k \in DOMAIN m}

RECURSIVE ReachableVia(_, _, _)
ReachableVia(rel, from, n) ==
    IF n = 0 THEN from
    ELSE ReachableVia(rel, from \cup {p[2] : p \in {q \in rel : q[1] \in from}}, n - 1)

HasCycle(rel) ==
    \E p \in rel : p[1] \in ReachableVia(rel, {p[2]}, Cardinality(Tables))

\* undirected view of the foreign keys of the schema
Linked(md) ==
    UNION {{<<md.fks[i].table, md.fks[i].referred_table>>,
            <<md.fks[i].referred_table, md.fks[i].table>>} : i \in 1..Len(md.fks)}

RECURSIVE Distance(_, _, _, _)
Distance(md, a, b, n) ==
    IF b \in ReachableVia(Linked(md), {a}, n) THEN n
    ELSE IF n >= Cardinality(Tables) THEN -1
    ELSE Distance(md, a, b, n + 1)

\* ---------------------------------------------------------------- C1
\* C1: for every schema whose foreign keys are all single-column, building
\* the graph yields exactly one Relationship per foreign-key constraint (as
\* many edges as constraints, none missing, none duplicated) and the
\* endpoints carry the primary/foreign flags of the schema columns.
C1_OneRelationPerForeignKey ==
    (GraphFinished /\ schema_type = "sqlalchemy" /\ AllSingleColumn(metadata)) =>
        /\ graph.constructed
        /\ Len(graph.edges) = Len(metadata.fks)
        /\ \A f \in SingleFKs : EdgeCount(f) = FKCount(metadata, f)
        /\ \A i \in 1..Len(graph.edges) :
              FlagsMatch(graph.edges[i].source) /\ FlagsMatch(graph.edges[i].target)

\* ---------------------------------------------------------------- C2
\* C2: for every schema with a foreign key over more than one column,
\* building the graph fails with the composite-key error and no Graph is
\* returned.
C2_CompositeKeyRejected ==
    (GraphFinished /\ schema_type = "sqlalchemy" /\ ~AllSingleColumn(metadata)) =>
        /\ gerr = "CompositeForeignKey"
        /\ ~graph.constructed

\* ---------------------------------------------------------------- C4
\* C4: with the example schema and the four-field example mapping, inserting
\* one row produces the waves {country}, {destination, traveler}, one country
\* row per distinct name value, and destination/traveler rows whose
\* country_id is the id of their country row.
C4_ExampleInsert ==
    (/\ ncalls = 1
     /\ metadata.fks = ExampleFKs
     /\ column_mapping = ExampleMapping
     /\ Len(csv_file) = 1) =>
        LET row == csv_file[1] IN
        /\ returned.kind = "InsertReport"
        /\ returned.waves = <<{"country"}, {"destination", "traveler"}>>
        /\ \A v \in {row.citizenship, row.country} :
              Cardinality({c \in storage["country"] : c.name = v}) = 1
        /\ \E t \in storage["traveler"] : \E c \in storage["country"] :
              t.name = row.name /\ t.country_id = c.id
        /\ \E d \in storage["destination"] : \E c \in storage["country"] :
              d.name = row.destination /\ d.country_id = c.id

\* ---------------------------------------------------------------- C5
\* C5: when country is reached through traveler and through destination,
\* every row's traveler record points at the country named by its
\* citizenship value and its destination record at the country named by its
\* country value.
C5_KeysFollowOwnChain ==
    (/\ ncalls >= 1
     /\ metadata.fks = ExampleFKs
     /\ column_mapping = ExampleMapping) =>
        \A i \in 1..Len(csv_file) :
            /\ \E t \in storage["traveler"] :
                  /\ t.name = csv_file[i].name
                  /\ \E c \in storage["country"] :
                        c.id = t.country_id /\ c.name = csv_file[i].citizenship
            /\ \E d \in storage["destination"] :
                  /\ d.name = csv_file[i].destination
                  /\ \E c \in storage["country"] :
                        c.id = d.country_id /\ c.name = csv_file[i].country

\* ---------------------------------------------------------------- C6
\* C6: after repeated inserts of the same rows with UNIQUE(country.name),
\* storage never holds two country records of one name, and the second and
\* later calls report country as matched with the key the first call created.
C6_SecondCallMatches ==
    (/\ ncalls >= 2
     /\ <<"country", "name">> \in metadata.unique
     /\ metadata.fks = ExampleFKs
     /\ column_mapping = ExampleMapping) =>
        /\ \A c1, c2 \in storage["country"] : c1.name = c2.name => c1 = c2
        /\ returned.kind = "InsertReport"
        /\ \A i \in 1..Len(csv_file) :
              /\ returned.outcomes[i]["country"].kind = "matched"
              /\ \E c \in storage["country"] : c.id = returned.outcomes[i]["country"].key

\* ---------------------------------------------------------------- C7
\* C7: a foreign-key cycle among the mapped tables makes the run fail as a
\* whole with CyclicOrUnsatisfiableDependency naming the stuck tables, and
\* no row is committed to a table on the cycle.
C7_CycleFails ==
    (ncalls >= 1 /\ metadata.fks = CyclicFKs /\ HasCycle(MappedRelations(column_mapping))) =>
        /\ returned.kind = "CyclicOrUnsatisfiableDependency"
        /\ returned.stuck = {"country", "traveler"}
        /\ storage["country"] = {}
        /\ storage["traveler"] = {}

\* ---------------------------------------------------------------- C8
\* C8: when traveler.name is NOT NULL and the mapping never populates it,
\* every row fails at traveler with MissingRequiredColumn, nothing is
\* written to traveler, and the rows still succeed at country and
\* destination.
C8_MissingRequiredColumn ==
    (/\ ncalls >= 1
     /\ <<"traveler", "name">> \in metadata.notnull
     /\ metadata.fks = ExampleFKs
     /\ column_mapping = CitizenshipMapping) =>
        /\ storage["traveler"] = {}
        /\ returned.kind = "InsertReport"
        /\ \A i \in 1..Len(csv_file) :
              /\ returned.outcomes[i]["traveler"].kind = "MissingRequiredColumn"
              /\ returned.outcomes[i]["country"].kind \in {"matched", "inserted"}
              /\ returned.outcomes[i]["destination"].kind \in {"matched", "inserted"}

\* ---------------------------------------------------------------- C9
\* C9: for a mapping whose mapped tables have acyclic dependencies, when the
\* insert run has ended every table the mapping touches has been processed
\* exactly once.
C9_EveryTableProcessedOnce ==
    (ncalls >= 1 /\ ~HasCycle(MappedRelations(column_mapping))) =>
        /\ returned.kind = "InsertReport"
        /\ \A t \in MappedTables(column_mapping) :
              Cardinality({w \in 1..Len(returned.waves) : t \in returned.waves[w]}) = 1

\* ---------------------------------------------------------------- C10
\* C10: for two tables connected in the graph, find_shortest_path returns a
\* chain from start to end that steps only along relation edges and has the
\* minimum number of edges.
C10_ShortestPath ==
    (/\ ppc \in {"returned", "raised"}
     /\ start \in Tables
     /\ end \in Tables
     /\ Distance(metadata, start, end, 0) >= 0) =>
        /\ presult.kind = "path"
        /\ Len(presult.path) = Distance(metadata, start, end, 0) + 1
        /\ presult.path[1] = start
        /\ presult.path[Len(presult.path)] = end
        /\ \A i \in 1..(Len(presult.path) - 1) :
              <<presult.path[i], presult.path[i + 1]>> \in Linked(metadata)

\* ---------------------------------------------------------------- C11
\* C11: every foreign key is traversable in both directions: for two table
\* names, find_shortest_path reports a path exactly when the two tables lie
\* in the same undirected component of the foreign keys.
C11_BothDirections ==
    (ppc \in {"returned", "raised"} /\ start \in Tables /\ end \in Tables) =>
        (presult.kind = "path" <=> Distance(metadata, start, end, 0) >= 0)

\* ---------------------------------------------------------------- C12
\* the table a find_shortest_path argument stands for
NameOf(x) == IF x \in Tables THEN x ELSE CHOOSE t \in Tables : TableObject(t) = x

\* number of foreign-key constraints that link tables a and b, either way
LinkCount(md, a, b) ==
    Cardinality({i \in 1..Len(md.fks) :
        \/ md.fks[i].table = a /\ md.fks[i].referred_table = b
        \/ md.fks[i].table = b /\ md.fks[i].referred_table = a})

RECURSIVE SumOver(_, _)
SumOver(f, S) ==
    IF S = {} THEN 0
    ELSE LET x == CHOOSE y \in S : TRUE IN f[x] + SumOver(f, S \ {x})

\* number of chains of n relations leading from a to b
RECURSIVE ChainCount(_, _, _, _)
ChainCount(md, a, b, n) ==
    IF n = 0 THEN (IF a = b THEN 1 ELSE 0)
    ELSE SumOver([c \in Tables |-> LinkCount(md, a, c) * ChainCount(md, c, b, n - 1)], Tables)

\* number of distinct shortest relation chains between a and b (0 if none)
ShortestChainCount(md, a, b) ==
    IF Distance(md, a, b, 0) < 0 THEN 0
    ELSE ChainCount(md, a, b, Distance(md, a, b, 0))

\* C12: when two or more distinct shortest paths of equal length connect
\* start and end, find_shortest_path returns none of them: it reports
\* AmbiguousPath with every candidate.
C12_TiesAreAmbiguous ==
    (/\ ppc \in {"returned", "raised"}
     /\ ShortestChainCount(metadata, NameOf(start), NameOf(end)) >= 2) =>
        /\ presult.kind = "AmbiguousPath"
        /\ Cardinality(presult.candidates) =
              ShortestChainCount(metadata, NameOf(start), NameOf(end))

\* ---------------------------------------------------------------- C13
\* C13: when no path connects start to end, find_shortest_path fails with
\* UnreachableTarget naming the last table reached and that table's
\* relations, instead of an undifferentiated empty result.
C13_UnreachableTarget ==
    (/\ ppc \in {"returned", "raised"}
     /\ Distance(metadata, NameOf(start), NameOf(end), 0) < 0) =>
        /\ presult.kind = "UnreachableTarget"
        /\ presult.last_table \in ReachableVia(Linked(metadata), {NameOf(start)}, Cardinality(Tables))
        /\ presult.available = {p \in Linked(metadata) : p[1] = presult.last_table}

\* ---------------------------------------------------------------- C14
\* names of required_tables that are not tables of the schema
AbsentNames == {n \in SeqToSet(required_tables) : n \notin Tables}

\* C14: find_join_path fails with a MissingTables result that lists every
\* absent name of required_tables and no present one, and that result
\* differs from the result of a call in which no table is missing.
C14_MissingTables ==
    (jpc = "returned" /\ AbsentNames # {}) =>
        /\ jreturned # [kind |-> "None"]
        /\ jreturned.kind = "MissingTables"
        /\ SeqToSet(jreturned.names) = AbsentNames

\* ---------------------------------------------------------------- C15
\* C15: constructing a Graph with a schema type that has no registered
\* converter fails with the unsupported-schema-type error before any
\* conversion step runs, and no Graph with nodes or edges results.
C15_UnsupportedSchemaType ==
    (schema_type \notin DOMAIN converters /\ gpc # "init") =>
        /\ gpc = "raised"
        /\ gerr = "UnsupportedSchemaType"
        /\ ~graph.constructed
        /\ graph.nodes = <<>> /\ graph.edges = <<>>
        /\ table_lookup = EmptyMap
        /\ columns = EmptyMap
        /\ relationships = <<>>

\* a Graph construction with schema_type "csv" has raised
C15_Witness ==
    /\ schema_type = "csv"
    /\ schema_type \notin DOMAIN converters
    /\ gpc = "raised"
    /\ gerr = "UnsupportedSchemaType"

\* ---------------------------------------------------------------- C16
\* C16: resolving the mapping string built from a chain and a column
\* (chain joined by the parent-relation separator, then the relation-field
\* separator, then the column) and re-deriving chain and column from the
\* resolved mapping yields the original chain and column.
C16_RoundTrip ==
    mpc = "checked" =>
        /\ mreturned.kind = "ResolvedMapping"
        /\ \A k \in DOMAIN column_mapping :
              /\ mreturned.entries[k].chain = column_mapping[k].chain
              /\ mreturned.entries[k].field = column_mapping[k].field

\* ---------------------------------------------------------------- C17
\* the mapping names a table or a field the schema does not have
NamesUnknown(m) ==
    \E k \in DOMAIN m :
        \/ SeqToSet(m[k].chain) \ Tables # {}
        \/ m[k].field \notin ColSet

\* C17: when a mapping entry names an unknown table or column, the call
\* fails with UnknownTable/UnknownColumn before any write, so storage is
\* unchanged.
C17_UnknownNamesFail ==
    NamesUnknown(column_mapping) =>
        /\ mpc = "checked" => mreturned.kind \in {"UnknownTable", "UnknownColumn"}
        /\ ncalls >= 1 => returned.kind \in {"UnknownTable", "UnknownColumn"}
        /\ storage = EmptyStorage

\* ---------------------------------------------------------------- C18
\* C18: during a run every (row, foreign-key column) slot of the row buffer
\* is written exactly once, with the key resolved for that row in the
\* referenced table, before the referencing table is processed.
C18_SlotWrittenOnce ==
    (/\ ncalls = 1
     /\ metadata.fks = ExampleFKs
     /\ MappedRelations(column_mapping) # {}
     /\ ~HasCycle(MappedRelations(column_mapping))) =>
        /\ returned.kind = "InsertReport"
        /\ \A i \in 1..Len(csv_file) : \A p \in MappedRelations(column_mapping) :
              /\ returned.outcomes[i][p[1]].writes[p[2]] = 1
              /\ returned.outcomes[i][p[1]].resolved[p[2]] = returned.outcomes[i][p[2]].key

\* ---------------------------------------------------------------- C19
\* C19: two rows of one run that carry the same value of country's unique
\* name never both insert a record: afterwards exactly one country record
\* has that name and both rows resolve to its key.
C19_OneRecordPerKey ==
    (/\ ncalls = 1
     /\ <<"country", "name">> \in metadata.unique
     /\ metadata.fks = ExampleFKs
     /\ column_mapping = ExampleMapping
     /\ Len(csv_file) >= 2
     /\ csv_file[1].country = csv_file[2].country) =>
        /\ Cardinality({c \in storage["country"] : c.name = csv_file[1].country}) = 1
        /\ \A d \in storage["destination"] :
              \A c \in storage["country"] : c.name = csv_file[1].country => d.country_id = c.id

\* ---------------------------------------------------------------- C20
\* C20: after a graph is built, every Column's nullable flag equals the
\* nullability of the schema column: the Column is non-nullable exactly
\* when the schema column is, i.e. exactly when a NOT NULL argument is
\* attached to it.
C20_NullabilityMatches ==
    graph.constructed =>
        \A t \in Tables : \A c \in ColSet :
            /\ columns[t][c].nullable = ~SqlaNotNull(metadata, t, c)
            /\ ~columns[t][c].nullable <=>
                  \E i \in 1..Len(columns[t][c].arguments) :
                      columns[t][c].arguments[i].kind = "NOT NULL"

\* ---------------------------------------------------------------- C21
\* number of arguments of kind k over exactly the columns cols in the list args
ArgCount(args, k, cols) ==
    Cardinality({i \in 1..Len(args) : args[i].kind = k /\ args[i].columns = cols})

\* C21: building a graph from a schema in which some column has a default
\* succeeds and attaches exactly one DEFAULT argument for that column, present
\* both in the owning Table's argument list and in the Column's argument list.
C21_DefaultAttached ==
    (/\ GraphFinished
     /\ schema_type = "sqlalchemy"
     /\ AllSingleColumn(metadata)
     /\ metadata.defaults # {}) =>
        /\ graph.constructed
        /\ \A d \in metadata.defaults :
              /\ ArgCount(table_lookup[d[1]].arguments, "DEFAULT", <<d[2]>>) = 1
              /\ ArgCount(columns[d[1]][d[2]].arguments, "DEFAULT", <<d[2]>>) = 1

\* ---------------------------------------------------------------- C22
\* number of positions of the list args that hold the argument a
Occurrences(args, a) == Cardinality({i \in 1..Len(args) : args[i] = a})

\* C22: in every built graph, each argument of a Table's argument list
\* appears exactly once in the argument list of every Column it covers, and
\* every argument of a Column's list appears in the list of the owning Table.
C22_ArgumentsOnBothEnds ==
    gpc = "done" =>
        \A t \in Tables :
            /\ \A i \in 1..Len(table_lookup[t].arguments) :
                  LET a == table_lookup[t].arguments[i]
                  IN  \A c \in SeqToSet(a.columns) :
                          Occurrences(columns[t][c].arguments, a) = 1
            /\ \A c \in ColSet :
                  \A j \in 1..Len(columns[t][c].arguments) :
                      Occurrences(table_lookup[t].arguments, columns[t][c].arguments[j]) >= 1

\* a built graph whose schema has an index over two columns, a check, a NOT
\* NULL column, a unique constraint and a foreign key, the index being
\* attached to its second column
C22_Witness ==
    /\ gpc = "done"
    /\ metadata.indexes # {} /\ metadata.checks # {}
    /\ metadata.notnull # {} /\ metadata.unique # {}
    /\ Len(metadata.fks) > 0
    /\ \E j \in 1..Len(columns["destination"]["country_id"].arguments) :
          columns["destination"]["country_id"].arguments[j].kind = "INDEX"
    /\ \E j \in 1..Len(columns["traveler"]["country_id"].arguments) :
          columns["traveler"]["country_id"].arguments[j].kind = "CHECK"

\* ---------------------------------------------------------------- C23
\* C23: in every built graph, each Relationship of the edge list is in the
\* relationship list of its referencing table and of its referenced table;
\* each table's list holds only relationships that have the table as an
\* endpoint, none of them twice (a self-referencing foreign key once).
C23_RelationsOnBothEnds ==
    gpc = "done" =>
        /\ \A i \in 1..Len(graph.edges) :
              LET r == graph.edges[i]
              IN  /\ Occurrences(table_lookup[r.source[1]].relationships, r) = 1
                  /\ Occurrences(table_lookup[r.target[1]].relationships, r) = 1
        /\ \A t \in Tables :
              \A j \in 1..Len(table_lookup[t].relationships) :
                  LET r == table_lookup[t].relationships[j]
                  IN  /\ r.source[1] = t \/ r.target[1] = t
                      /\ Occurrences(table_lookup[t].relationships, r) = 1
                      /\ Occurrences(graph.edges, r) = 1

\* a built graph with a self-referencing foreign key and a foreign key
\* between two different tables
C23_Witness ==
    /\ gpc = "done"
    /\ \E i, j \in 1..Len(graph.edges) :
          /\ graph.edges[i].source[1] = graph.edges[i].target[1]
          /\ graph.edges[j].source[1] # graph.edges[j].target[1]

\* ---------------------------------------------------------------- C24
\* the Column object an endpoint <<table, column>> stands for
ColumnOf(k) == columns[k[1]][k[2]]

\* C24: every Relationship whose source column is a foreign-key column and
\* whose target column is a primary-key column has the kind many-to-one,
\* whatever the other two flags are.
C24_ForeignToPrimaryIsManyToOne ==
    gpc = "done" =>
        \A i \in 1..Len(graph.edges) :
            LET r == graph.edges[i]
            IN  (ColumnOf(r.source).is_foreign_key /\ ColumnOf(r.target).is_primary_key) =>
                    r.relationship_type = "ManyToOne"

\* ---------------------------------------------------------------- C25
\* contexts that have made a register_converter call
Registrants == {registrations[i].context : i \in 1..Len(registrations)}

\* C25: registering or replacing a converter through one context leaves the
\* converters seen by every other context unchanged: a context that has
\* registered nothing sees the registry as it was after import.
C25_RegistrationIsScoped ==
    \A c \in Contexts \ Registrants : ConvertersSeenBy(c) = RegisteredConverters

\* ---------------------------------------------------------------- C26
\* no table is in the queue twice, every queued table is visited, and every
\* table enqueued so far (dequeued or still queued) is a visited table of
\* its own
EnqueuedAtMostOnce ==
    /\ \A i, j \in 1..Len(queue) : queue[i].node = queue[j].node => i = j
    /\ \A i \in 1..Len(queue) : queue[i].node \in visited
    /\ iterations + Len(queue) <= Cardinality(visited)
    /\ visited \subseteq DOMAIN dbgraph

\* C26: find_shortest_path terminates for every finite adjacency map, maps
\* with cycles and self-references included: each table is added to the
\* visited set and enqueued at most once, so the number of loop iterations
\* is bounded by the number of tables.
C26_Terminates ==
    /\ [](EnqueuedAtMostOnce /\ iterations <= Cardinality(DOMAIN dbgraph))
    /\ <>(ppc \in {"returned", "raised"})

\* a call that has returned after one iteration per table, on a map with a
\* self-reference and a cycle through all tables
C26_Witness ==
    /\ ppc = "returned"
    /\ iterations = Cardinality(Tables)
    /\ \E t \in Tables : t \in SeqToSet(dbgraph[t])
    /\ \E a, b, c \in Tables :
          /\ a # b /\ b # c /\ a # c
          /\ b \in SeqToSet(dbgraph[a])
          /\ c \in SeqToSet(dbgraph[b])
          /\ a \in SeqToSet(dbgraph[c])

\* ---------------------------------------------------------------- C27
\* C27: the adjacency map Database.build_graph produces is closed and
\* consistently keyed: every table name of the schema is a key, every
\* neighbour listed in a value is a key, so graph[node] is defined for the
\* start table and for every node find_shortest_path dequeues.
C27_ClosedAndConsistentlyKeyed ==
    /\ Tables \subseteq DOMAIN dbgraph
    /\ \A k \in DOMAIN dbgraph :
          \A i \in 1..Len(dbgraph[k]) : dbgraph[k][i] \in DOMAIN dbgraph
    /\ (ppc = "loop" /\ queue # <<>>) => Head(queue).node \in DOMAIN dbgraph
    /\ presult.kind # "KeyError"

\* ---------------------------------------------------------------- C28
\* number of lines that list table t
Listed(t) ==
    Cardinality({i \in 1..Len(lines) : lines[i][1] = "table" /\ lines[i][2] = t})

\* C28: the breadth_first visualization lists every table of the graph
\* exactly once, under exactly one level, for every schema graph.
C28_EveryTableListedOnce ==
    (style = "breadth_first" /\ vpc = "done") =>
        \A t \in SeqToSet(graph.nodes) : Listed(t) = 1

\* ---------------------------------------------------------------- C29
\* the directed foreign-key graph of the schema: (child table, parent table)
FKPairs(md) == {<<md.fks[i].table, md.fks[i].referred_table>> : i \in 1..Len(md.fks)}

\* C29: the circular_deps visualization reports "No circular dependencies
\* detected" exactly when the directed foreign-key graph has no cycle; a
\* self-referencing foreign key and a longer cycle are each reported.
C29_NoCycleMessage ==
    (style = "circular_deps" /\ vpc = "done") =>
        /\ (\E i \in 1..Len(lines) : lines[i] = <<"No circular dependencies detected">>)
               <=> ~HasCycle(FKPairs(metadata))
        /\ cycles = <<>> <=> ~HasCycle(FKPairs(metadata))
        /\ \A p \in FKPairs(metadata) :
              /\ p[1] = p[2] => \E i \in 1..Len(cycles) : cycles[i] = <<p[1], p[1]>>
              /\ (p[1] # p[2] /\ <<p[2], p[1]>> \in FKPairs(metadata)) =>
                    \E i \in 1..Len(cycles) : cycles[i] = <<p[1], p[2], p[1]>>

\* circular_deps has finished on a schema with a cycle through two tables
\* and has reported it
C29_Witness ==
    /\ style = "circular_deps"
    /\ vpc = "done"
    /\ \E a, b \in Tables :
          /\ a # b
          /\ {<<a, b>>, <<b, a>>} \subseteq FKPairs(metadata)
          /\ \E i \in 1..Len(cycles) : cycles[i] = <<a, b, a>>

\* ---------------------------------------------------------------- C30
\* no table is expanded while it is on the current path, and a style with a
\* shared visited set expands no table twice
NoReexpansion ==
    /\ \A i, j \in 1..Len(frames) : frames[i].table = frames[j].table => i = j
    /\ Len(frames) <= Cardinality(Tables)
    /\ style \in SharedVisitedStyles =>
          \A t \in Tables :
              Cardinality({i \in 1..Len(lines) : lines[i] = <<"table", t>>}) <= 1

\* C30: every recursive traversal of the visualizations (hierarchy,
\* dependency_chain, depth_first, tree, circular_deps) terminates on every
\* finite schema graph, cycles and self-references included, because no
\* traversal re-expands a table on its current path or in its visited set.
C30_TraversalsTerminate ==
    /\ [](style \in DfsStyles => NoReexpansion)
    /\ (style \in DfsStyles /\ vpc = "run") ~> (vpc = "done")

\* the tree style has finished on a schema with a cycle through two tables,
\* having met an already visited table
C30_Witness ==
    /\ style = "tree"
    /\ vpc = "done"
    /\ \E a, b \in Tables :
          a # b /\ {<<a, b>>, <<b, a>>} \subseteq FKPairs(metadata)
    /\ \E i \in 1..Len(lines) : lines[i][1] = "again"

====
